---- MODULE Spec2Model ----
(***************************************************************************)
(* Model of src/main.py: the FishAudioLoginBot worker (setup_driver,      *)
(* is_logged_in, login, run, stop, get_stats_summary) and the part of   *)
(* the Streamlit script main() that starts, stops, drains and reads a bot.*)
(*                                                                         *)
(* Every bot instance the UI constructs is one index of Bots.  A worker   *)
(* thread is a program counter pc[b] over the statements of run(); the    *)
(* UI script is a second process whose stop() is two separate writes.     *)
(* time.sleep(n) is not a state change of the program; the model keeps    *)
(* the length of the last sleep of run() (lastSleep[b]) and the seconds   *)
(* slept while a stop request was pending (stopInfo[b].slept).            *)
(***************************************************************************)
EXTENDS Integers, Sequences, FiniteSets

\* ------------------------------------------------------------------ bounds

\* Cap on total_checks of the bot of Spec (the loop itself is unbounded).
MaxChecks == 2
\* Number of bot instances the UI constructs under SpecRestart.
MaxBots == 2
\* Cap on total_checks of each bot under FairSpec and SpecRestart.
ShortChecks == 1
\* reload_interval handed to the bots, in seconds.
ReloadInterval == 2
\* Cap on the seconds accounted in stopInfo[b].slept.
LatencyCap == 4

\* The number of events a capped status queue would retain.
RetentionCap == 5

\* --------------------------------------------------------------- constants

\* time.sleep(3) after driver.get in run()
NavSettleSeconds == 3
\* time.sleep(5) after driver.get in login()
LoginLoadSeconds == 5
\* time.sleep(1) before send_keys in login()
TypeDelaySeconds == 1
\* time.sleep(8) after the click in login()
LoginSettleSeconds == 8
\* len(driver_setup_methods)
NumSetupMethods == 4

Bots == 1..MaxBots

Min(a, b) == IF a <= b THEN a ELSE b

Max(a, b) == IF a >= b THEN a ELSE b

\* ------------------------------------------------------------------- URLs
\* A URL is a sequence of characters; the scheme and host "https://fish.audio"
\* are one symbol "H" since no test of the program looks inside them.

Contains(sub, s) ==
    \E k \in 1..(Len(s) - Len(sub) + 1) : SubSeq(s, k, k + Len(sub) - 1) = sub

LOGIN_URL == <<"H", "/", "a", "u", "t", "h", "/">>

URLs ==
    { <<"H", "/", "a", "u", "t", "h", "/">>,             \* the login page
      <<"H", "/", "a", "u", "t", "h">>,                  \* the same, no slash
      <<"H", "/", "l", "o", "g", "i", "n">>,             \* a login path
      <<"H", "/", "a", "u", "t", "h", "o", "r", "s">>,   \* "auth" inside a word
      <<"H", "/", "a", "p", "p">>,                       \* an application page
      <<"H", "/">> }                                     \* the home page

\* login_indicators of is_logged_in, by position in the list:
\* 1 email input, 2 password input, 3 'Sign in' button, 4 'Login' button.
Indicators == 1..4

\* What the driver shows when it is asked: the current URL, the indicators
\* that resolve, and whether a call raises (err = "url": reading current_url
\* raises; err = "probe": find_element on indicator errAt raises something
\* other than NoSuchElementException).
Pages ==
    [url : URLs, present : SUBSET Indicators, err : {"none", "url", "probe"},
     errAt : Indicators]

\* The pages the loop's actions draw from: every URL, the form absent or
\* present, every error kind.
LoopPages ==
    { p \in Pages : /\ p.present \in {{}, {2}}
                    /\ p.errAt = 1 }

\* ------------------------------------------------------------ is_logged_in

\* The driver calls of is_logged_in, as they are written in a trace: 0 is
\* the read of current_url, k in Indicators is find_element on indicator k.
ReadUrl == 0

\* The for loop over login_indicators from position k on: the first
\* indicator that resolves returns False, one that is absent raises
\* NoSuchElementException and the loop continues, one that raises another
\* error leaves the loop with that error (exc), none left returns True.
\* calls are the find_element calls made.
RECURSIVE ProbeIndicators(_, _)
ProbeIndicators(page, k) ==
    IF k > 4 THEN [ok |-> TRUE, exc |-> FALSE, calls |-> <<>>]
    ELSE IF page.err = "probe" /\ page.errAt = k
         THEN [ok |-> FALSE, exc |-> TRUE, calls |-> <<k>>]
    ELSE IF k \in page.present
         THEN [ok |-> FALSE, exc |-> FALSE, calls |-> <<k>>]
    ELSE LET rest == ProbeIndicators(page, k + 1)
         IN  [rest EXCEPT !.calls = <<k>> \o @]

\* ClassifyBody with the two rules in the other order: the indicators are
\* probed first and the URL is looked at only when none resolves.
ClassifyBodyProbesFirst(page) ==
    LET probed == ProbeIndicators(page, 1)
    IN  IF probed.exc \/ ~probed.ok THEN probed
        ELSE IF page.err = "url"
             THEN [ok |-> FALSE, exc |-> TRUE,
                   calls |-> probed.calls \o <<ReadUrl>>]
        ELSE [ok |-> ~(Contains(<<"a", "u", "t", "h">>, page.url)
                        \/ Contains(<<"l", "o", "g", "i", "n">>, page.url)),
              exc |-> FALSE, calls |-> probed.calls \o <<ReadUrl>>]

\* The body of the try block of is_logged_in (243-267).
ClassifyBody(page) ==
    IF page.err = "url" THEN [ok |-> FALSE, exc |-> TRUE, calls |-> <<ReadUrl>>]
    ELSE IF Contains(<<"a", "u", "t", "h">>, page.url)
            \/ Contains(<<"l", "o", "g", "i", "n">>, page.url)
         THEN [ok |-> FALSE, exc |-> FALSE, calls |-> <<ReadUrl>>]
    ELSE LET probed == ProbeIndicators(page, 1)
         IN  [probed EXCEPT !.calls = <<ReadUrl>> \o @]

\* ClassifyRun with the handler written "except NoSuchElementException":
\* any other driver error leaves is_logged_in.
ClassifyRunNarrowHandler(page) ==
    LET body == ClassifyBody(page)
    IN  [ok |-> body.ok, raised |-> body.exc, calls |-> body.calls]

\* The try block with its handler "except Exception: return False"
\* (269-271): what the call returns (ok), whether an exception leaves it
\* (raised), and the driver calls it made.
ClassifyRun(page) ==
    LET body == ClassifyBody(page)
    IN  IF body.exc
        THEN [ok |-> FALSE, raised |-> FALSE, calls |-> body.calls]
        ELSE [ok |-> body.ok, raised |-> FALSE, calls |-> body.calls]

is_logged_in(page) == ClassifyRun(page).ok

\* ------------------------------------------------------------------- login

\* Where one login() attempt fails: "none", or the call that raises.
\* find_* are the three wait.until(...) that raise TimeoutException and are
\* caught by the inner handlers; the others leave through the outer except.
FailPoints ==
    {"none", "get", "ready", "find_email", "type_email", "find_password",
     "type_password", "find_button", "click"}

\* The statements of login() that call the driver, in program order.
StepOrder ==
    <<"get", "ready", "find_email", "type_email", "find_password",
      "type_password", "find_button", "click">>

\* LoginSteps with the three "return False" of the TimeoutException handlers
\* left out: the handler logs, and login() goes on with the next field.
RECURSIVE LoginStepsNoReturn(_, _)
LoginStepsNoReturn(fail, k) ==
    IF k > Len(StepOrder) THEN <<"verdict">>
    ELSE IF StepOrder[k] = fail
         THEN IF fail \in {"find_email", "find_password", "find_button"}
              THEN <<StepOrder[k]>> \o LoginStepsNoReturn("none", k + 2)
              ELSE <<StepOrder[k]>>
    ELSE <<StepOrder[k]>> \o LoginStepsNoReturn(fail, k + 1)

\* The statements login() executes from position k of StepOrder on, when
\* the one named fail raises: a find_* that times out is caught by its own
\* handler, which returns False (292-294, 303-305, 312-314); any other
\* raise is caught by the outer handler, which returns False (331-333).
\* Either way nothing after the failing statement runs.  "verdict" stands
\* for lines 317-329, reached when nothing raised.
RECURSIVE LoginSteps(_, _)
LoginSteps(fail, k) ==
    IF k > Len(StepOrder) THEN <<"verdict">>
    ELSE IF StepOrder[k] = fail THEN <<StepOrder[k]>>
    ELSE <<StepOrder[k]>> \o LoginSteps(fail, k + 1)

\* The verdict after the click and the settle delay (lines 320-329).
LoginVerdict(page) ==
    IF page.err = "url" THEN FALSE
    ELSE IF ~Contains(LOGIN_URL, page.url) THEN TRUE
    ELSE IF ~is_logged_in(page) THEN TRUE
    ELSE FALSE

login(fail, page) ==
    LET steps == LoginSteps(fail, 1)
    IN  IF steps[Len(steps)] = "verdict" THEN LoginVerdict(page) ELSE FALSE

\* Seconds login() sleeps before it returns, by where it fails: sleep(5)
\* after get, sleep(1) before each send_keys, sleep(8) after the click.
LoginSleep(fail) ==
    CASE fail = "get" -> 0
      [] fail \in {"ready", "find_email"} -> LoginLoadSeconds
      [] fail \in {"type_email", "find_password"} ->
            LoginLoadSeconds + TypeDelaySeconds
      [] fail \in {"type_password", "find_button", "click"} ->
            LoginLoadSeconds + TypeDelaySeconds + TypeDelaySeconds
      [] OTHER -> LoginLoadSeconds + TypeDelaySeconds + TypeDelaySeconds
                  + LoginSettleSeconds

\* What one call of login() can come to, over every failure point and every
\* page the loop draws from: its return value and the seconds it slept.
LoginOutcomes ==
    { [ok |-> login(fail, page), slept |-> LoginSleep(fail)] :
        fail \in FailPoints, page \in LoopPages }

\* What one call of is_logged_in() can return over the pages the loop draws
\* from.
ClassifyOutcomes == { is_logged_in(page) : page \in LoopPages }

\* ------------------------------------------------------------------- state

VARIABLES
    pc,           \* pc[b]: the statement of run() worker b is at
    running,      \* self.running
    driver,       \* self.driver: "None", or the handle's state "open"/"quit"
    method,       \* index i of the for loop over driver_setup_methods
    stats,        \* self.stats
    published,    \* every event put on self.status_queue, in order
    taken,        \* how many of them the UI has got from the queue
    countdown,    \* index i of the for loop over range(reload_interval)
    quitCalls,    \* history: calls of self.driver.quit()
    stopInfo,     \* history: what held when stop() was called on b
    lastSleep,    \* history: seconds of the last time.sleep run() called
    verdict,      \* what is_logged_in() returned in the cycle under way
    authCalls,    \* history: calls of self.login()
    nBots,        \* bot instances constructed so far
    bot_running,  \* st.session_state.bot_running
    bot_instance, \* st.session_state.bot_instance (0: None)
    last_status,  \* st.session_state.last_status: <<b, k>>, event k of b
    uiPc,         \* the UI script: "ready", or "stop" inside stop()
    summary,      \* the dict get_stats_summary() last returned ({}: none yet)
    call          \* SpecCalls only: one call of login or is_logged_in

vars == <<pc, running, driver, method, stats, published, taken, countdown,
          quitCalls, stopInfo, lastSleep, verdict, authCalls, nBots,
          bot_running, bot_instance, last_status, uiPc, summary, call>>

InitStats ==
    [total_checks |-> 0, successful_logins |-> 0, already_logged_in |-> 0,
     login_failures |-> 0, start_time |-> "None", last_check_time |-> 0,
     current_status |-> "Stopped"]

NoStop == [phase |-> "none", checks |-> 0, pub |-> 0, slept |-> 0,
           observed |-> FALSE]

\* No call under test: the value of call in Spec and SpecRestart.
NoCall ==
    [fn |-> "none", fail |-> "none",
     page |-> [url |-> LOGIN_URL, present |-> {}, err |-> "none", errAt |-> 1],
     returned |-> FALSE, ok |-> FALSE, raised |-> FALSE, trace |-> <<>>]

Init ==
    /\ pc = [b \in Bots |-> "idle"]
    /\ running = [b \in Bots |-> FALSE]
    /\ driver = [b \in Bots |-> "None"]
    /\ method = [b \in Bots |-> 1]
    /\ stats = [b \in Bots |-> InitStats]
    /\ published = [b \in Bots |-> <<>>]
    /\ taken = [b \in Bots |-> 0]
    /\ countdown = [b \in Bots |-> 0]
    /\ quitCalls = [b \in Bots |-> 0]
    /\ stopInfo = [b \in Bots |-> NoStop]
    /\ lastSleep = [b \in Bots |-> 0]
    /\ verdict = [b \in Bots |-> "none"]
    /\ authCalls = [b \in Bots |-> 0]
    /\ nBots = 0
    /\ bot_running = FALSE
    /\ bot_instance = 0
    /\ last_status = <<>>
    /\ uiPc = "ready"
    /\ summary = {}
    /\ call = NoCall

\* ----------------------------------------------------------------- helpers

\* The event dict put on the queue.  copied says whether "stats" is
\* self.stats.copy() (its own dict) or self.stats itself; in the second case
\* the dict read through the event is the live one, see EventStats.
Event(b, status, message, copied, remaining) ==
    [status |-> status, message |-> message, stats |-> stats[b],
     copied |-> copied, countdown |-> remaining]

\* Put on a last-in first-out queue (queue.LifoQueue): the newest event is
\* the first a reader gets.
PutFront(b, e) == published' = [published EXCEPT ![b] = <<e>> \o @]

\* status_queue.put(event)
Put(b, e) == published' = [published EXCEPT ![b] = Append(@, e)]

\* The statistics a reader finds in event k of bot b.
EventStats(b, k) ==
    IF published[b][k].copied THEN published[b][k].stats ELSE stats[b]

\* The events still on the queue.
status_queue(b) == SubSeq(published[b], taken[b] + 1, Len(published[b]))

\* Worker b sleeps n seconds in all; last is the time.sleep that run()
\* itself called (0: the sleeps were those of login()).  Seconds are
\* accounted in stopInfo only between a stop request and the worker's
\* reading running = False.
Slept(b, n, last) ==
    /\ lastSleep' = IF last > 0 THEN [lastSleep EXCEPT ![b] = last]
                    ELSE lastSleep
    /\ stopInfo' =
        IF stopInfo[b].phase # "none" /\ ~stopInfo[b].observed
        THEN [stopInfo EXCEPT ![b].slept = Min(@ + n, LatencyCap)]
        ELSE stopInfo

\* The worker reads self.running.
Polled(b) ==
    stopInfo' =
        IF stopInfo[b].phase # "none" /\ ~running[b]
        THEN [stopInfo EXCEPT ![b].observed = TRUE]
        ELSE stopInfo

\* The phase of the loop a statement of run() belongs to.
Phase(p) ==
    CASE p \in {"setup", "anti_detect", "setup_failed", "set_running"} ->
            "SettingUp"
      [] p \in {"set_started", "loop_top", "cycle_start", "nav", "classify"} ->
            "Checking"
      [] p \in {"login", "login_ok", "login_failed", "already", "put_success",
                "put_failed", "put_already"} -> "Authenticating"
      [] p \in {"wait_check", "wait_put"} -> "Waiting"
      [] p \in {"except", "put_error"} -> "Backoff"
      [] p \in {"finally", "set_stopped", "put_info"} -> "Stopping"
      [] OTHER -> "Exited"

\* What no statement of the worker writes.
UIUnchanged ==
    UNCHANGED <<nBots, bot_running, bot_instance, last_status, uiPc, call,
                summary>>

\* ------------------------------------------------------------ setup_driver

\* TryMethod with "break" in the except branch in place of "continue": the
\* first method that fails ends the loop.
TryMethodGiveUp(b) ==
    /\ pc[b] = "setup"
    /\ \E ok \in BOOLEAN :
        IF ok
        THEN /\ driver' = [driver EXCEPT ![b] = "open"]
             /\ pc' = [pc EXCEPT ![b] = "anti_detect"]
             /\ UNCHANGED method
        ELSE /\ UNCHANGED <<driver, method>>
             /\ pc' = [pc EXCEPT ![b] = "setup_failed"]
    /\ UNCHANGED <<running, stats, published, taken, countdown, quitCalls,
                   verdict, authCalls, stopInfo, lastSleep>>
    /\ UIUnchanged

\* One iteration of the for loop over driver_setup_methods (lines 168-177),
\* and after the loop the test of driver_created (179-181).
TryMethod(b) ==
    /\ pc[b] = "setup"
    /\ \E ok \in BOOLEAN :
        IF ok
        THEN /\ driver' = [driver EXCEPT ![b] = "open"]
             /\ pc' = [pc EXCEPT ![b] = "anti_detect"]
             /\ UNCHANGED method
        ELSE /\ UNCHANGED driver
             /\ IF method[b] < NumSetupMethods
                THEN /\ method' = [method EXCEPT ![b] = @ + 1]
                     /\ UNCHANGED pc
                ELSE /\ pc' = [pc EXCEPT ![b] = "setup_failed"]
                     /\ UNCHANGED method
    /\ UNCHANGED <<running, stats, published, taken, countdown, quitCalls,
                   verdict, authCalls, stopInfo, lastSleep>>
    /\ UIUnchanged

\* execute_script, execute_cdp_cmd and WebDriverWait (184-191); any of them
\* raising is caught by the outer except, which returns False (193-195).
AntiDetect(b) ==
    /\ pc[b] = "anti_detect"
    /\ \E ok \in BOOLEAN :
        pc' = [pc EXCEPT ![b] = IF ok THEN "set_running" ELSE "setup_failed"]
    /\ UNCHANGED <<running, driver, method, stats, published, taken,
                   countdown, quitCalls, verdict, authCalls, stopInfo,
                   lastSleep>>
    /\ UIUnchanged

\* --------------------------------------------------------------------- run

\* SetupFailed with the failure only logged: run() returns and nothing is
\* put on the queue.
SetupFailedSilent(b) ==
    /\ pc[b] = "setup_failed"
    /\ pc' = [pc EXCEPT ![b] = "done"]
    /\ UNCHANGED <<running, driver, method, stats, published, taken,
                   countdown, quitCalls, verdict, authCalls, stopInfo,
                   lastSleep>>
    /\ UIUnchanged

\* setup_driver() returned False: the event is put and run() returns
\* (337-344).  The event holds self.stats itself, not a copy.
SetupFailed(b) ==
    /\ pc[b] = "setup_failed"
    /\ Put(b, Event(b, "error", "Failed to setup driver", FALSE, 0))
    /\ pc' = [pc EXCEPT ![b] = "done"]
    /\ UNCHANGED <<running, driver, method, stats, taken, countdown,
                   quitCalls, verdict, authCalls, stopInfo, lastSleep>>
    /\ UIUnchanged

\* self.running = True (346)
SetRunning(b) ==
    /\ pc[b] = "set_running"
    /\ running' = [running EXCEPT ![b] = TRUE]
    /\ pc' = [pc EXCEPT ![b] = "set_started"]
    /\ UNCHANGED <<driver, method, stats, published, taken, countdown,
                   quitCalls, verdict, authCalls, stopInfo, lastSleep>>
    /\ UIUnchanged

\* start_time and current_status = 'Running' (347-348)
SetStarted(b) ==
    /\ pc[b] = "set_started"
    /\ stats' = [stats EXCEPT ![b].start_time = "set",
                              ![b].current_status = "Running"]
    /\ pc' = [pc EXCEPT ![b] = "loop_top"]
    /\ UNCHANGED <<running, driver, method, published, taken, countdown,
                   quitCalls, verdict, authCalls, stopInfo, lastSleep>>
    /\ UIUnchanged

\* while self.running: (351)
LoopTop(b, cap) ==
    /\ pc[b] = "loop_top"
    /\ running[b] => stats[b].total_checks < cap
    /\ pc' = [pc EXCEPT ![b] = IF running[b] THEN "cycle_start" ELSE "finally"]
    /\ Polled(b)
    /\ UNCHANGED <<running, driver, method, stats, published, taken,
                   countdown, quitCalls, verdict, authCalls, lastSleep>>
    /\ UIUnchanged

\* total_checks += 1 and last_check_time (353-354)
CycleStart(b) ==
    /\ pc[b] = "cycle_start"
    /\ stats' = [stats EXCEPT ![b].total_checks = @ + 1,
                              ![b].last_check_time = stats[b].total_checks + 1]
    /\ pc' = [pc EXCEPT ![b] = "nav"]
    /\ verdict' = [verdict EXCEPT ![b] = "none"]
    /\ UNCHANGED <<running, driver, method, published, taken, countdown,
                   quitCalls, authCalls, stopInfo, lastSleep>>
    /\ UIUnchanged

\* self.driver.get(LOGIN_URL); time.sleep(3) (358-359).  driver.get is the
\* call of the cycle that raises into the loop's handler: is_logged_in and
\* login catch every Exception themselves.
Navigate(b) ==
    /\ pc[b] = "nav"
    /\ \E ok \in BOOLEAN :
        IF ok
        THEN /\ pc' = [pc EXCEPT ![b] = "classify"]
             /\ Slept(b, NavSettleSeconds, NavSettleSeconds)
        ELSE /\ pc' = [pc EXCEPT ![b] = "except"]
             /\ UNCHANGED <<stopInfo, lastSleep>>
    /\ UNCHANGED <<running, driver, method, stats, published, taken,
                   countdown, quitCalls, verdict, authCalls>>
    /\ UIUnchanged

\* Classify with the test written "if self.is_logged_in():": the login is
\* attempted when the session is found logged in.
ClassifyInverted(b) ==
    /\ pc[b] = "classify"
    /\ \E logged_in \in ClassifyOutcomes :
        /\ verdict' = [verdict EXCEPT ![b] =
                         IF logged_in THEN "True" ELSE "False"]
        /\ IF ~logged_in
           THEN /\ pc' = [pc EXCEPT ![b] = "already"]
                /\ UNCHANGED stats
           ELSE /\ pc' = [pc EXCEPT ![b] = "login"]
                /\ stats' = [stats EXCEPT
                                ![b].current_status = "Logging in..."]
    /\ UNCHANGED <<running, driver, method, published, taken, countdown,
                   quitCalls, authCalls, stopInfo, lastSleep>>
    /\ UIUnchanged

\* if not self.is_logged_in(): ... current_status = 'Logging in...' (362-365)
Classify(b) ==
    /\ pc[b] = "classify"
    /\ \E logged_in \in ClassifyOutcomes :
        /\ verdict' = [verdict EXCEPT ![b] =
                         IF logged_in THEN "True" ELSE "False"]
        /\ IF logged_in
           THEN /\ pc' = [pc EXCEPT ![b] = "already"]
                /\ UNCHANGED stats
           ELSE /\ pc' = [pc EXCEPT ![b] = "login"]
                /\ stats' = [stats EXCEPT
                                ![b].current_status = "Logging in..."]
    /\ UNCHANGED <<running, driver, method, published, taken, countdown,
                   quitCalls, authCalls, stopInfo, lastSleep>>
    /\ UIUnchanged

\* if self.login(): (367)
Login(b) ==
    /\ pc[b] = "login"
    /\ \E out \in LoginOutcomes :
        /\ pc' = [pc EXCEPT ![b] =
                    IF out.ok THEN "login_ok" ELSE "login_failed"]
        /\ Slept(b, out.slept, 0)
    /\ authCalls' = [authCalls EXCEPT ![b] = @ + 1]
    /\ UNCHANGED <<running, driver, method, stats, published, taken,
                   countdown, quitCalls, verdict>>
    /\ UIUnchanged

\* CountSuccess that counts the cycle as already logged in as well.
CountSuccessAndAlready(b) ==
    /\ pc[b] = "login_ok"
    /\ stats' = [stats EXCEPT ![b].successful_logins = @ + 1,
                              ![b].already_logged_in = @ + 1,
                              ![b].current_status = "Logged in"]
    /\ pc' = [pc EXCEPT ![b] = "put_success"]
    /\ UNCHANGED <<running, driver, method, published, taken, countdown,
                   quitCalls, verdict, authCalls, stopInfo, lastSleep>>
    /\ UIUnchanged

\* successful_logins += 1; current_status = 'Logged in' (368-371)
CountSuccess(b) ==
    /\ pc[b] = "login_ok"
    /\ stats' = [stats EXCEPT ![b].successful_logins = @ + 1,
                              ![b].current_status = "Logged in"]
    /\ pc' = [pc EXCEPT ![b] = "put_success"]
    /\ UNCHANGED <<running, driver, method, published, taken, countdown,
                   quitCalls, verdict, authCalls, stopInfo, lastSleep>>
    /\ UIUnchanged

\* login_failures += 1; current_status = 'Login failed' (379-382)
CountFailure(b) ==
    /\ pc[b] = "login_failed"
    /\ stats' = [stats EXCEPT ![b].login_failures = @ + 1,
                              ![b].current_status = "Login failed"]
    /\ pc' = [pc EXCEPT ![b] = "put_failed"]
    /\ UNCHANGED <<running, driver, method, published, taken, countdown,
                   quitCalls, verdict, authCalls, stopInfo, lastSleep>>
    /\ UIUnchanged

\* already_logged_in += 1; current_status = 'Already logged in' (391-394)
CountAlready(b) ==
    /\ pc[b] = "already"
    /\ stats' = [stats EXCEPT ![b].already_logged_in = @ + 1,
                              ![b].current_status = "Already logged in"]
    /\ pc' = [pc EXCEPT ![b] = "put_already"]
    /\ UNCHANGED <<running, driver, method, published, taken, countdown,
                   quitCalls, verdict, authCalls, stopInfo, lastSleep>>
    /\ UIUnchanged

\* PutOutcome with the put written before the increment of the counter:
\* the statistics in the event are those of before the outcome was counted.
PutOutcomeStale(b) ==
    /\ pc[b] \in {"put_success", "put_failed", "put_already"}
    /\ Put(b, CASE pc[b] = "put_success" ->
                     [Event(b, "success", "Login successful", TRUE, 0)
                        EXCEPT !.stats.successful_logins = @ - 1]
                [] pc[b] = "put_failed" ->
                     [Event(b, "error", "Login failed", TRUE, 0)
                        EXCEPT !.stats.login_failures = @ - 1]
                [] OTHER ->
                     [Event(b, "success", "Already logged in", TRUE, 0)
                        EXCEPT !.stats.already_logged_in = @ - 1])
    /\ countdown' = [countdown EXCEPT ![b] = 0]
    /\ pc' = [pc EXCEPT ![b] = "wait_check"]
    /\ UNCHANGED <<running, driver, method, stats, taken, quitCalls, verdict,
                   authCalls, stopInfo, lastSleep>>
    /\ UIUnchanged

\* The status_queue.put of the cycle's outcome (373-377, 384-388, 396-400);
\* the for loop over range(reload_interval) starts after it (403).
PutOutcome(b) ==
    /\ pc[b] \in {"put_success", "put_failed", "put_already"}
    /\ Put(b, CASE pc[b] = "put_success" ->
                     Event(b, "success", "Login successful", TRUE, 0)
                [] pc[b] = "put_failed" ->
                     Event(b, "error", "Login failed", TRUE, 0)
                [] OTHER ->
                     Event(b, "success", "Already logged in", TRUE, 0))
    /\ countdown' = [countdown EXCEPT ![b] = 0]
    /\ pc' = [pc EXCEPT ![b] = "wait_check"]
    /\ UNCHANGED <<running, driver, method, stats, taken, quitCalls, verdict,
                   authCalls, stopInfo, lastSleep>>
    /\ UIUnchanged

\* WaitCheck without "if not self.running: break": the countdown runs to
\* its end whatever the flag says.
WaitCheckNoPoll(b) ==
    /\ pc[b] = "wait_check"
    /\ pc' = [pc EXCEPT ![b] =
                IF countdown[b] >= ReloadInterval THEN "loop_top"
                ELSE "wait_put"]
    /\ UNCHANGED <<running, driver, method, stats, published, taken,
                   countdown, quitCalls, verdict, authCalls, stopInfo,
                   lastSleep>>
    /\ UIUnchanged

\* for i in range(self.reload_interval): if not self.running: break (403-405)
WaitCheck(b) ==
    /\ pc[b] = "wait_check"
    /\ IF countdown[b] >= ReloadInterval
       THEN /\ pc' = [pc EXCEPT ![b] = "loop_top"]
            /\ UNCHANGED stopInfo
       ELSE /\ pc' = [pc EXCEPT ![b] =
                        IF running[b] THEN "wait_put" ELSE "loop_top"]
            /\ Polled(b)
    /\ UNCHANGED <<running, driver, method, stats, published, taken,
                   countdown, quitCalls, verdict, authCalls, lastSleep>>
    /\ UIUnchanged

\* WaitPut with remaining = reload_interval - i - 1: the seconds left after
\* the sleep that follows, not before it.
WaitPutAfterSleep(b) ==
    /\ pc[b] = "wait_put"
    /\ Put(b, Event(b, "progress", "Next check in", TRUE,
                    ReloadInterval - countdown[b] - 1))
    /\ countdown' = [countdown EXCEPT ![b] = @ + 1]
    /\ Slept(b, 1, 1)
    /\ pc' = [pc EXCEPT ![b] = "wait_check"]
    /\ UNCHANGED <<running, driver, method, stats, taken, quitCalls, verdict,
                   authCalls>>
    /\ UIUnchanged

\* remaining = reload_interval - i; put the progress event; time.sleep(1)
\* (406-415)
WaitPut(b) ==
    /\ pc[b] = "wait_put"
    /\ Put(b, Event(b, "progress", "Next check in", TRUE,
                    ReloadInterval - countdown[b]))
    /\ countdown' = [countdown EXCEPT ![b] = @ + 1]
    /\ Slept(b, 1, 1)
    /\ pc' = [pc EXCEPT ![b] = "wait_check"]
    /\ UNCHANGED <<running, driver, method, stats, taken, quitCalls, verdict,
                   authCalls>>
    /\ UIUnchanged

\* HandleException with the count forgotten: the handler reports the error
\* and leaves login_failures as it was.
HandleExceptionUncounted(b) ==
    /\ pc[b] = "except"
    /\ stats' = [stats EXCEPT ![b].current_status = "Error occurred"]
    /\ pc' = [pc EXCEPT ![b] = "put_error"]
    /\ UNCHANGED <<running, driver, method, published, taken, countdown,
                   quitCalls, verdict, authCalls, stopInfo, lastSleep>>
    /\ UIUnchanged

\* except Exception: login_failures += 1; current_status = 'Error occurred'
\* (417-421)
HandleException(b) ==
    /\ pc[b] = "except"
    /\ stats' = [stats EXCEPT ![b].login_failures = @ + 1,
                              ![b].current_status = "Error occurred"]
    /\ pc' = [pc EXCEPT ![b] = "put_error"]
    /\ UNCHANGED <<running, driver, method, published, taken, countdown,
                   quitCalls, verdict, authCalls, stopInfo, lastSleep>>
    /\ UIUnchanged

\* Backoff with the exception let through after it is reported: the worker
\* leaves the while loop for the finally block.
BackoffThenExit(b) ==
    /\ pc[b] = "put_error"
    /\ Put(b, Event(b, "error", "Error in main loop", TRUE, 0))
    /\ pc' = [pc EXCEPT ![b] = "finally"]
    /\ UNCHANGED <<running, driver, method, stats, taken, countdown,
                   quitCalls, verdict, authCalls, stopInfo, lastSleep>>
    /\ UIUnchanged

\* The handler's status_queue.put and time.sleep(self.reload_interval)
\* (423-428); the while test follows.
Backoff(b) ==
    /\ pc[b] = "put_error"
    /\ Put(b, Event(b, "error", "Error in main loop", TRUE, 0))
    /\ Slept(b, ReloadInterval, ReloadInterval)
    /\ pc' = [pc EXCEPT ![b] = "loop_top"]
    /\ UNCHANGED <<running, driver, method, stats, taken, countdown,
                   quitCalls, verdict, authCalls>>
    /\ UIUnchanged

\* Finally with the test written "if self.driver and self.running": running
\* is False at loop exit, so the driver is never quit.
FinallySkipQuit(b) ==
    /\ pc[b] = "finally"
    /\ IF driver[b] # "None" /\ running[b]
       THEN /\ driver' = [driver EXCEPT ![b] = "quit"]
            /\ quitCalls' = [quitCalls EXCEPT ![b] = @ + 1]
            /\ pc' = [pc EXCEPT ![b] = "set_stopped"]
       ELSE /\ pc' = [pc EXCEPT ![b] = "done"]
            /\ UNCHANGED <<driver, quitCalls>>
    /\ UNCHANGED <<running, method, stats, published, taken, countdown,
                   stopInfo, lastSleep, verdict, authCalls>>
    /\ UIUnchanged

\* finally: if self.driver: self.driver.quit() (430-433)
Finally(b) ==
    /\ pc[b] = "finally"
    /\ IF driver[b] # "None"
       THEN /\ driver' = [driver EXCEPT ![b] = "quit"]
            /\ quitCalls' = [quitCalls EXCEPT ![b] = @ + 1]
            /\ pc' = [pc EXCEPT ![b] = "set_stopped"]
       ELSE /\ pc' = [pc EXCEPT ![b] = "done"]
            /\ UNCHANGED <<driver, quitCalls>>
    /\ UNCHANGED <<running, method, stats, published, taken, countdown,
                   stopInfo, lastSleep, verdict, authCalls>>
    /\ UIUnchanged

\* current_status = 'Stopped' (434)
SetStopped(b) ==
    /\ pc[b] = "set_stopped"
    /\ stats' = [stats EXCEPT ![b].current_status = "Stopped"]
    /\ pc' = [pc EXCEPT ![b] = "put_info"]
    /\ UNCHANGED <<running, driver, method, published, taken, countdown,
                   quitCalls, verdict, authCalls, stopInfo, lastSleep>>
    /\ UIUnchanged

\* The final status_queue.put (435-439); run() returns.
PutStopped(b) ==
    /\ pc[b] = "put_info"
    /\ Put(b, Event(b, "info", "Bot stopped", TRUE, 0))
    /\ pc' = [pc EXCEPT ![b] = "done"]
    /\ UNCHANGED <<running, driver, method, stats, taken, countdown,
                   quitCalls, verdict, authCalls, stopInfo, lastSleep>>
    /\ UIUnchanged

\* ---------------------------------------------------------------- main (UI)

\* The Start button (656-672): a new bot, a new thread on its run().
ClickStart(maxBots) ==
    /\ uiPc = "ready"
    /\ ~bot_running
    /\ nBots < maxBots
    /\ nBots' = nBots + 1
    /\ pc' = [pc EXCEPT ![nBots + 1] = "setup"]
    /\ bot_instance' = nBots + 1
    /\ bot_running' = TRUE
    /\ UNCHANGED <<running, driver, method, stats, published, taken,
                   countdown, quitCalls, verdict, authCalls, stopInfo,
                   lastSleep, last_status, uiPc, call, summary>>

\* The Stop button up to the first statement of stop(): self.running = False
\* (675-677, 443).
ClickStop ==
    /\ uiPc = "ready"
    /\ bot_running
    /\ bot_instance # 0
    /\ running' = [running EXCEPT ![bot_instance] = FALSE]
    /\ stopInfo' = [stopInfo EXCEPT ![bot_instance] =
                      [phase |-> Phase(pc[bot_instance]),
                       checks |-> stats[bot_instance].total_checks,
                       pub |-> Len(published[bot_instance]),
                       slept |-> 0, observed |-> FALSE]]
    /\ uiPc' = "stop"
    /\ UNCHANGED <<pc, driver, method, stats, published, taken, countdown,
                   quitCalls, verdict, authCalls, lastSleep, nBots,
                   bot_running, bot_instance, last_status, call, summary>>

\* The second statement of stop(), current_status = 'Stopping...' (444), and
\* the rest of the Stop branch (678-680).
StopStatus ==
    /\ uiPc = "stop"
    /\ stats' = [stats EXCEPT ![bot_instance].current_status = "Stopping..."]
    /\ bot_running' = FALSE
    /\ bot_instance' = 0
    /\ uiPc' = "ready"
    /\ UNCHANGED <<pc, running, driver, method, published, taken, countdown,
                   quitCalls, verdict, authCalls, stopInfo, lastSleep, nBots,
                   last_status, call, summary>>

\* One run of the script while the bot runs: the queue is drained (770-792).
Drain ==
    /\ uiPc = "ready"
    /\ bot_running
    /\ bot_instance # 0
    /\ taken[bot_instance] < Len(published[bot_instance])
    /\ taken' = [taken EXCEPT ![bot_instance] = Len(published[bot_instance])]
    /\ last_status' = <<bot_instance, Len(published[bot_instance])>>
    /\ UNCHANGED <<pc, running, driver, method, stats, published, countdown,
                   quitCalls, verdict, authCalls, stopInfo, lastSleep, nBots,
                   bot_running, bot_instance, uiPc, call, summary>>

\* get_stats_summary() on the dict s (446-466).  runtime is a time of day
\* difference, kept as whether start_time was set; success_rate is in tenths
\* of a percent, round(x, 1) as the nearest tenth (no x within the bounds
\* falls halfway between two tenths); last_check is 'Never' or the formatted
\* last_check_time.
get_stats_summary(s) ==
    [runtime |-> IF s.start_time # "None" THEN "elapsed" ELSE "0:00:00",
     total_checks |-> s.total_checks,
     successful_logins |-> s.successful_logins,
     already_logged_in |-> s.already_logged_in,
     login_failures |-> s.login_failures,
     success_rate |->
        (2000 * (s.successful_logins + s.already_logged_in)
            + Max(s.total_checks, 1)) \div (2 * Max(s.total_checks, 1)),
     current_status |-> s.current_status,
     last_check |-> IF s.last_check_time # 0
                    THEN <<"%H:%M:%S", s.last_check_time>>
                    ELSE <<"Never">>]

\* One run of the script that draws the dashboard (699-700): the summary
\* is computed from the bot's own self.stats, which the worker thread is
\* writing; no lock is taken on either side.  The reads of the fields are
\* taken as one step.
ReadSummary ==
    /\ uiPc = "ready"
    /\ bot_instance # 0
    /\ summary' = {get_stats_summary(stats[bot_instance])}
    /\ UNCHANGED <<pc, running, driver, method, stats, published, taken,
                   countdown, quitCalls, verdict, authCalls, stopInfo,
                   lastSleep, nBots, bot_running, bot_instance, last_status,
                   uiPc, call>>

\* The Stop button's handler as one step: stop() (441-444) and the rest of
\* the branch (678-680).
StopBot ==
    /\ uiPc = "ready"
    /\ bot_running
    /\ bot_instance # 0
    /\ running' = [running EXCEPT ![bot_instance] = FALSE]
    /\ stopInfo' = [stopInfo EXCEPT ![bot_instance] =
                      [phase |-> Phase(pc[bot_instance]),
                       checks |-> stats[bot_instance].total_checks,
                       pub |-> Len(published[bot_instance]),
                       slept |-> 0, observed |-> FALSE]]
    /\ stats' = [stats EXCEPT ![bot_instance].current_status = "Stopping..."]
    /\ bot_running' = FALSE
    /\ bot_instance' = 0
    /\ UNCHANGED <<pc, driver, method, published, taken, countdown, quitCalls,
                   verdict, authCalls, lastSleep, nBots, last_status, uiPc,
                   call, summary>>

\* ------------------------------------------------------- calls under test

\* The arguments of one call of login() or is_logged_in(): where the attempt
\* fails and what the driver shows.  When the call has returned, ok is its
\* return value, raised says whether an exception left it, and trace is the
\* sequence of statements (login) or driver calls (is_logged_in) it made.
CallInputs ==
    { [fn |-> "login", fail |-> f, page |-> p, returned |-> FALSE,
       ok |-> FALSE, raised |-> FALSE, trace |-> <<>>] :
        f \in FailPoints, p \in Pages }
    \cup
    { [fn |-> "is_logged_in", fail |-> "none", page |-> p, returned |-> FALSE,
       ok |-> FALSE, raised |-> FALSE, trace |-> <<>>] : p \in Pages }

ProgramUnchanged ==
    UNCHANGED <<pc, running, driver, method, stats, published, taken,
                countdown, quitCalls, verdict, authCalls, stopInfo, lastSleep,
                nBots, bot_running, bot_instance, last_status, uiPc, summary>>

\* login() on the arguments held in call
CallLogin ==
    /\ call.fn = "login"
    /\ ~call.returned
    /\ call' = [call EXCEPT !.returned = TRUE,
                            !.ok = login(call.fail, call.page),
                            !.trace = LoginSteps(call.fail, 1)]
    /\ ProgramUnchanged

\* is_logged_in() on the page held in call
CallIsLoggedIn ==
    /\ call.fn = "is_logged_in"
    /\ ~call.returned
    /\ call' = [call EXCEPT !.returned = TRUE,
                            !.ok = is_logged_in(call.page),
                            !.raised = ClassifyRun(call.page).raised,
                            !.trace = ClassifyRun(call.page).calls]
    /\ ProgramUnchanged

\* ------------------------------------------------------------ specification

Worker(b, cap) ==
    \/ TryMethod(b) \/ AntiDetect(b) \/ SetupFailed(b)
    \/ SetRunning(b) \/ SetStarted(b)
    \/ LoopTop(b, cap) \/ CycleStart(b) \/ Navigate(b) \/ Classify(b)
    \/ Login(b)
    \/ CountSuccess(b) \/ CountFailure(b) \/ CountAlready(b) \/ PutOutcome(b)
    \/ WaitCheck(b) \/ WaitPut(b)
    \/ HandleException(b) \/ Backoff(b)
    \/ Finally(b) \/ SetStopped(b) \/ PutStopped(b)

\* One session in which Start is clicked once: one loop, from construction
\* to its exit, with the UI stopping it and draining its queue at any time.
Next ==
    \/ \E b \in Bots : Worker(b, MaxChecks)
    \/ ClickStart(1)
    \/ ClickStop
    \/ StopStatus
    \/ Drain

Spec == Init /\ [][Next]_vars

\* The same session with the loop capped at ShortChecks cycles and the
\* worker thread scheduled as long as it can run.
NextShort ==
    \/ \E b \in Bots : Worker(b, ShortChecks)
    \/ ClickStart(1)
    \/ ClickStop
    \/ StopStatus
    \/ Drain

FairSpec ==
    /\ Init
    /\ [][NextShort]_vars
    /\ \A b \in Bots : WF_vars(Worker(b, ShortChecks))

\* FairSpec with the script rerun as long as it has events to take: while
\* bot_running is True the script ends with time.sleep(2); st.rerun()
\* (900-903), and every run drains the queue.  A Stop branch that has begun
\* runs to its end (676-680).  Clicking Start or Stop is up to the user and
\* has no fairness.
FairSpecUI ==
    /\ Init
    /\ [][NextShort]_vars
    /\ \A b \in Bots : WF_vars(Worker(b, ShortChecks))
    /\ WF_vars(Drain)
    /\ WF_vars(StopStatus)

\* The session of NextShort with the dashboard drawn at any time.
NextRead ==
    \/ \E b \in Bots : Worker(b, ShortChecks)
    \/ ClickStart(1)
    \/ ClickStop
    \/ StopStatus
    \/ Drain
    \/ ReadSummary

SpecRead == Init /\ [][NextRead]_vars

\* One session in which Start may be clicked again after Stop, up to
\* MaxBots bots in all, each loop capped at ShortChecks cycles.  The Stop
\* handler is one step and the queues are not drained: Drain writes only
\* taken and last_status, which no worker and no button reads.
NextRestart ==
    \/ \E b \in Bots : Worker(b, ShortChecks)
    \/ ClickStart(MaxBots)
    \/ StopBot

SpecRestart == Init /\ [][NextRestart]_vars

\* Single calls of login() and is_logged_in() over every argument.
InitCalls ==
    /\ pc = [b \in Bots |-> "idle"]
    /\ running = [b \in Bots |-> FALSE]
    /\ driver = [b \in Bots |-> "None"]
    /\ method = [b \in Bots |-> 1]
    /\ stats = [b \in Bots |-> InitStats]
    /\ published = [b \in Bots |-> <<>>]
    /\ taken = [b \in Bots |-> 0]
    /\ countdown = [b \in Bots |-> 0]
    /\ quitCalls = [b \in Bots |-> 0]
    /\ stopInfo = [b \in Bots |-> NoStop]
    /\ lastSleep = [b \in Bots |-> 0]
    /\ verdict = [b \in Bots |-> "none"]
    /\ authCalls = [b \in Bots |-> 0]
    /\ nBots = 0
    /\ bot_running = FALSE
    /\ bot_instance = 0
    /\ last_status = <<>>
    /\ uiPc = "ready"
    /\ summary = {}
    /\ call \in CallInputs

NextCalls ==
    \/ CallLogin
    \/ CallIsLoggedIn

SpecCalls == InitCalls /\ [][NextCalls]_vars

\* ------------------------------------------------------------------ claims

\* The statements of a cycle between total_checks += 1 and the increment of
\* the counter of its outcome.
InCycle ==
    {"nav", "classify", "login", "login_ok", "login_failed", "already",
     "except"}

Counted(s) == s.successful_logins + s.already_logged_in + s.login_failures

\* C1: whenever the worker is not inside a cycle (countdown, backoff, before
\* the loop, after exit) the three outcome counters add up to total_checks,
\* and so they do in the statistics of every event put on the queue.
C1_CountersBalance ==
    \A b \in Bots :
        /\ pc[b] \notin InCycle =>
              Counted(stats[b]) = stats[b].total_checks
        /\ \A k \in 1..Len(published[b]) :
              Counted(EventStats(b, k)) = EventStats(b, k).total_checks

\* C1 witness: a loop that has exited after two cycles, one ended by a
\* caught exception or failed login and one found already logged in.
C1_Witness ==
    \E b \in Bots :
        /\ pc[b] = "done"
        /\ stats[b].total_checks = 2
        /\ stats[b].login_failures = 1
        /\ stats[b].already_logged_in = 1
        /\ \E k \in 1..Len(published[b]) :
              published[b][k].message = "Error in main loop"

\* C2: once stop() has been called on a bot, self.running is False and no
\* later step of the worker makes it True again.
C2_StopNeverLost ==
    \A b \in Bots : stopInfo[b].phase # "none" => ~running[b]

\* C3: at most one worker is live (started and not yet returned from run())
\* at any time.
C3_OneLiveWorker ==
    Cardinality({ b \in Bots : pc[b] \notin {"idle", "done"} }) <= 1

\* C4: driver.quit() is called at most once, only after the while loop has
\* been left, and a worker whose setup succeeded has called it exactly once
\* when run() returns.
C4_QuitOnceAtExit ==
    \A b \in Bots :
        /\ quitCalls[b] <= 1
        /\ quitCalls[b] = 1 => pc[b] \in {"set_stopped", "put_info", "done"}
        /\ (pc[b] = "done" /\ stats[b].start_time = "set") => quitCalls[b] = 1

\* C4 witness: a loop every cycle of which raised, stopped and returned,
\* with the driver quit once.
C4_Witness ==
    \E b \in Bots :
        /\ pc[b] = "done"
        /\ quitCalls[b] = 1
        /\ stats[b].total_checks = 2
        /\ stats[b].login_failures = 2
        /\ \A k \in 1..(Len(published[b]) - 1) :
              published[b][k].message = "Error in main loop"

\* C5: when run() has returned, no driver handle the worker acquired is
\* still open.
C5_DriverReleased ==
    \A b \in Bots : pc[b] = "done" => driver[b] # "open"

\* The events of b put on the queue after stop() was called.
AfterStop(b) ==
    SubSeq(published[b], stopInfo[b].pub + 1, Len(published[b]))

ProgressCount(evs) ==
    Cardinality({ k \in 1..Len(evs) : evs[k].status = "progress" })

\* C6, safety part: after a stop requested during the countdown the worker
\* sleeps at most one more second, puts at most one more progress event and
\* none after that second, does not increment total_checks, stays on the way
\* out of the loop and has quit the driver when it returns.
C6_Safe ==
    \A b \in Bots :
        stopInfo[b].phase = "Waiting" =>
            /\ stopInfo[b].slept <= 1
            /\ ProgressCount(AfterStop(b)) <= 1
            /\ (stopInfo[b].observed \/ pc[b] = "loop_top") =>
                  ProgressCount(AfterStop(b)) <= stopInfo[b].slept
            /\ stats[b].total_checks = stopInfo[b].checks
            /\ pc[b] \in {"wait_check", "wait_put", "loop_top", "finally",
                          "set_stopped", "put_info", "done"}
            /\ pc[b] = "done" =>
                  /\ driver[b] = "quit"
                  /\ quitCalls[b] = 1
                  /\ published[b][Len(published[b])].status = "info"

\* C6, whole: C6_Safe in every state, and every stop requested during the
\* countdown is followed by the return of run().
C6_StopWhileWaiting ==
    /\ []C6_Safe
    /\ \A b \in Bots : (stopInfo[b].phase = "Waiting") ~> (pc[b] = "done")

\* C6 witness: a worker stopped in the countdown that put one more progress
\* event, slept its second, and returned.
C6_Witness ==
    \E b \in Bots :
        /\ stopInfo[b].phase = "Waiting"
        /\ pc[b] = "done"
        /\ stopInfo[b].slept = 1
        /\ ProgressCount(AfterStop(b)) = 1

\* C7: after stop() is called on a running loop the worker never sleeps more
\* than one second in all before it reads the flag, in whatever phase the
\* request found it.
C7_StopLatencyOneSecond ==
    \A b \in Bots :
        stopInfo[b].phase \in {"Checking", "Authenticating", "Waiting",
                               "Backoff"} =>
            stopInfo[b].slept <= 1

\* C8: an exception that reaches the handler of the loop is counted once in
\* login_failures, then reported by one error event followed by a sleep of
\* reload_interval seconds, then the while test is made, which starts the
\* next cycle if stop() was not called; the worker leaves the loop only by
\* that test finding running False.
C8_Step(b) ==
    /\ (pc[b] = "except" /\ pc'[b] # "except") =>
          /\ pc'[b] = "put_error"
          /\ stats'[b].login_failures = stats[b].login_failures + 1
          /\ stats'[b].total_checks = stats[b].total_checks
          /\ stats'[b].successful_logins = stats[b].successful_logins
          /\ stats'[b].already_logged_in = stats[b].already_logged_in
          /\ published'[b] = published[b]
    /\ (pc[b] = "put_error" /\ pc'[b] # "put_error") =>
          /\ pc'[b] = "loop_top"
          /\ Len(published'[b]) = Len(published[b]) + 1
          /\ published'[b][Len(published'[b])].status = "error"
          /\ Counted(stats'[b]) = Counted(stats[b])
          /\ lastSleep'[b] = ReloadInterval
    /\ (pc[b] = "loop_top" /\ pc'[b] # "loop_top") =>
          /\ pc'[b] = IF running[b] THEN "cycle_start" ELSE "finally"
          /\ stopInfo[b].phase = "none" => pc'[b] = "cycle_start"
    /\ (pc'[b] = "finally" /\ pc[b] # "finally") =>
          pc[b] = "loop_top" /\ ~running[b]

C8_CycleExceptionCaught == [][\A b \in Bots : C8_Step(b)]_vars

\* C8 witness: the cycle after a caught exception has started, with the
\* failure counted, the error event last on the queue and the backoff slept.
C8_Witness ==
    \E b \in Bots :
        /\ pc[b] = "cycle_start"
        /\ stopInfo[b].phase = "none"
        /\ stats[b].total_checks = 1
        /\ stats[b].login_failures = 1
        /\ published[b][Len(published[b])].message = "Error in main loop"
        /\ lastSleep[b] = ReloadInterval

\* C9: a worker whose driver setup failed returns with total_checks 0, one
\* event published in all, an error event, and current_status 'Failed'.
C9_SetupFailureEndsFailed ==
    \A b \in Bots :
        (pc[b] = "done" /\ stats[b].start_time = "None") =>
            /\ stats[b].total_checks = 0
            /\ Len(published[b]) = 1
            /\ published[b][1].status = "error"
            /\ stats[b].current_status = "Failed"

\* C10: a login() that got as far as reading the URL after the settle delay
\* returns True if the URL does not contain LOGIN_URL or, failing that, if
\* the classifier finds the session logged in, and False if the URL still
\* contains LOGIN_URL and the classifier finds it logged out.
C10_VerdictFollowsClassifier ==
    (call.fn = "login" /\ call.returned /\ call.fail = "none"
        /\ call.page.err # "url") =>
        (call.ok <=> (~Contains(LOGIN_URL, call.page.url)
                        \/ is_logged_in(call.page)))

\* The three wait.until(...) of login() that locate the identifier input,
\* the secret input and the submit control.
TimeoutSteps == {"find_email", "find_password", "find_button"}

\* C11: a login() in which locating the email field, the password field or
\* the button times out returns False, the locating statement is the last
\* one it executed, the statements before it are those of the program in
\* order, and no statement was executed twice.
C11_TimeoutEndsAttempt ==
    (call.fn = "login" /\ call.returned /\ call.fail \in TimeoutSteps) =>
        /\ ~call.ok
        /\ ~call.raised
        /\ call.trace[Len(call.trace)] = call.fail
        /\ Len(call.trace) <= Len(StepOrder)
        /\ \A i \in 1..Len(call.trace) : call.trace[i] = StepOrder[i]
        /\ \A i, j \in 1..Len(call.trace) :
              i # j => call.trace[i] # call.trace[j]
        /\ call.fail = "find_email" =>
              \A i \in 1..Len(call.trace) :
                  call.trace[i] \notin {"type_email", "find_password",
                                        "type_password", "find_button",
                                        "click", "verdict"}

\* C11 witness: a login() whose email field was not found has returned
\* False after the navigation, the readiness wait and that one lookup.
C11_Witness ==
    /\ call.fn = "login"
    /\ call.returned
    /\ call.fail = "find_email"
    /\ ~call.ok
    /\ call.trace = <<"get", "ready", "find_email">>

\* The test of is_logged_in on the URL.
OnLoginEndpoint(url) ==
    \/ Contains(<<"a", "u", "t", "h">>, url)
    \/ Contains(<<"l", "o", "g", "i", "n">>, url)

\* The least element of a non-empty set of indicators.
First(S) == CHOOSE k \in S : \A j \in S : k <= j

\* C12: when no driver call raises, is_logged_in() returns True exactly when
\* the URL is not a login endpoint and none of the four indicators
\* resolves; on a login endpoint it probes no indicator; otherwise it
\* probes the indicators in list order and stops at the first that
\* resolves.
C12_RulesInOrder ==
    (call.fn = "is_logged_in" /\ call.returned /\ call.page.err = "none") =>
        /\ call.ok <=> (~OnLoginEndpoint(call.page.url)
                          /\ call.page.present = {})
        /\ ~call.raised
        /\ call.trace[1] = ReadUrl
        /\ \A i \in 2..Len(call.trace) : call.trace[i] = i - 1
        /\ Len(call.trace) =
              IF OnLoginEndpoint(call.page.url) THEN 1
              ELSE IF call.page.present # {} THEN 1 + First(call.page.present)
              ELSE 1 + Cardinality(Indicators)

\* C12 witness: on an application page that shows the two buttons and no
\* input, the call has returned False after probing indicators 1, 2, 3.
C12_Witness ==
    /\ call.fn = "is_logged_in"
    /\ call.returned
    /\ call.page.err = "none"
    /\ call.page.url = <<"H", "/", "a", "p", "p">>
    /\ call.page.present = {3, 4}
    /\ ~call.ok
    /\ call.trace = <<ReadUrl, 1, 2, 3>>

\* Whether a driver call of is_logged_in() on this page raises an error
\* other than NoSuchElementException: the read of the URL does, or the
\* probe of indicator errAt does and the call gets that far.
DriverErrorRaised(page) ==
    \/ page.err = "url"
    \/ /\ page.err = "probe"
       /\ ~OnLoginEndpoint(page.url)
       /\ \A k \in page.present : k >= page.errAt

\* C13: an is_logged_in() in which a driver call raises returns False, and
\* no exception leaves it; the raising call is the last it made.
C13_ErrorMeansLoggedOut ==
    (call.fn = "is_logged_in" /\ call.returned
        /\ DriverErrorRaised(call.page)) =>
        /\ ~call.ok
        /\ ~call.raised
        /\ call.trace[Len(call.trace)] =
              IF call.page.err = "url" THEN ReadUrl ELSE call.page.errAt

\* C13 witness: on an application page with no indicator present, where
\* the call would return True, the probe of the last indicator raised and
\* the call has returned False.
C13_Witness ==
    /\ call.fn = "is_logged_in"
    /\ call.returned
    /\ call.page.url = <<"H", "/", "a", "p", "p">>
    /\ call.page.present = {}
    /\ call.page.err = "probe"
    /\ call.page.errAt = 4
    /\ ~call.ok
    /\ call.trace = <<ReadUrl, 1, 2, 3, 4>>

\* The events of b that report the outcome of a cycle.
OutcomeEvents(b) ==
    { k \in 1..Len(published[b]) :
        published[b][k].status \in {"success", "error"} }

\* C14, state part: login() is called at most once per cycle and every
\* successful login is one of those calls; and a loop all of whose cycles
\* so far have reported, each as found logged in, has already_logged_in
\* equal to total_checks, successful_logins 0 and no call of login().
C14_Inv ==
    \A b \in Bots :
        /\ authCalls[b] <= stats[b].total_checks
        /\ pc[b] \notin InCycle =>
              /\ stats[b].successful_logins <= authCalls[b]
              /\ authCalls[b] <=
                    stats[b].successful_logins + stats[b].login_failures
        /\ (/\ Cardinality(OutcomeEvents(b)) = stats[b].total_checks
            /\ \A k \in OutcomeEvents(b) :
                  published[b][k].message = "Already logged in") =>
              /\ stats[b].already_logged_in = stats[b].total_checks
              /\ stats[b].successful_logins = 0
              /\ stats[b].login_failures = 0
              /\ authCalls[b] = 0

\* C14, step part: the classification leads to login() exactly when it
\* returned False; login() is called only then; a cycle found logged in
\* adds one to already_logged_in and to nothing else, puts one success
\* event and starts the countdown, with no call of login().
C14_Step(b) ==
    /\ (pc[b] = "classify" /\ pc'[b] # "classify") =>
          /\ verdict'[b] \in {"True", "False"}
          /\ (verdict'[b] = "False") <=> (pc'[b] = "login")
          /\ (verdict'[b] = "True") <=> (pc'[b] = "already")
          /\ authCalls'[b] = authCalls[b]
    /\ (pc[b] = "login" /\ pc'[b] # "login") =>
          authCalls'[b] = authCalls[b] + 1
    /\ authCalls'[b] # authCalls[b] =>
          /\ authCalls'[b] = authCalls[b] + 1
          /\ pc[b] = "login"
          /\ verdict[b] = "False"
    /\ (pc[b] = "already" /\ pc'[b] # "already") =>
          /\ pc'[b] = "put_already"
          /\ verdict[b] = "True"
          /\ stats'[b].already_logged_in = stats[b].already_logged_in + 1
          /\ stats'[b].total_checks = stats[b].total_checks
          /\ stats'[b].successful_logins = stats[b].successful_logins
          /\ stats'[b].login_failures = stats[b].login_failures
          /\ published'[b] = published[b]
    /\ (pc[b] = "put_already" /\ pc'[b] # "put_already") =>
          /\ pc'[b] = "wait_check"
          /\ Len(published'[b]) = Len(published[b]) + 1
          /\ published'[b][Len(published'[b])].status = "success"
          /\ published'[b][Len(published'[b])].stats.already_logged_in =
                stats[b].already_logged_in
          /\ stats'[b] = stats[b]
          /\ authCalls'[b] = authCalls[b]

\* C14, whole: C14_Inv in every state and C14_Step at every step.
C14_AuthenticateOnlyLoggedOut ==
    /\ []C14_Inv
    /\ [][\A b \in Bots : C14_Step(b)]_vars

\* C14 witness: two cycles, both found logged in, are over: total_checks 2,
\* already_logged_in 2, no login, and the loop is at its test again.
C14_Witness ==
    \E b \in Bots :
        /\ pc[b] = "loop_top"
        /\ stats[b].total_checks = 2
        /\ stats[b].already_logged_in = 2
        /\ stats[b].successful_logins = 0
        /\ authCalls[b] = 0
        /\ verdict[b] = "True"

\* C15: the bot takes no mode (its constructor has email, password and
\* reload_interval only), so a loop wanted in Forced mode is the loop of
\* run(); for it the claim says that between cycles login() has been called
\* once per cycle and successful_logins + login_failures = total_checks.
C15_ForcedAuthenticatesEveryCycle ==
    \A b \in Bots :
        pc[b] \notin InCycle =>
            /\ stats[b].successful_logins + stats[b].login_failures =
                  stats[b].total_checks
            /\ stats[b].already_logged_in = 0

\* The statistics s hold the two streak counters.
HasStreak(s) ==
    /\ "consecutiveSuccesses" \in DOMAIN s
    /\ "maxConsecutiveSuccesses" \in DOMAIN s

\* C16: the statistics, and the statistics of every event, hold
\* consecutiveSuccesses and maxConsecutiveSuccesses; consecutiveSuccesses is
\* never negative and never above maxConsecutiveSuccesses, it is 0 in every
\* error event, and in every success event it is one more than in the
\* outcome event before it (1 if that was an error event or there is none).
C16_StreakCounters ==
    \A b \in Bots :
        /\ HasStreak(stats[b])
        /\ stats[b].consecutiveSuccesses >= 0
        /\ stats[b].consecutiveSuccesses <= stats[b].maxConsecutiveSuccesses
        /\ \A k \in OutcomeEvents(b) :
              LET s == EventStats(b, k)
                  before == { j \in OutcomeEvents(b) : j < k }
                  prev == IF before = {} THEN 0
                          ELSE EventStats(b, CHOOSE j \in before :
                                  \A i \in before : i <= j).consecutiveSuccesses
              IN  /\ HasStreak(s)
                  /\ published[b][k].status = "error" =>
                        s.consecutiveSuccesses = 0
                  /\ published[b][k].status = "success" =>
                        s.consecutiveSuccesses = prev + 1
                  /\ s.maxConsecutiveSuccesses >= s.consecutiveSuccesses

\* The progress events of b.
ProgressEvents(b) ==
    { k \in 1..Len(published[b]) : published[b][k].status = "progress" }

\* C17: every progress event carries a countdown between 1 and
\* reload_interval; the first of a wait carries reload_interval and each
\* next one of the same wait one less than the one before, so the values
\* never increase; and a wait that ran to its end (the outcome of the next
\* cycle follows it, or the loop is back at its test with no stop
\* requested) ended on the value 1, that is reload_interval events with
\* the values reload_interval down to 1.
C17_CountdownValues ==
    \A b \in Bots : \A k \in ProgressEvents(b) :
        LET e == published[b][k]
        IN  /\ e.countdown >= 1
            /\ e.countdown <= ReloadInterval
            /\ k > 1
            /\ IF published[b][k - 1].status = "progress"
               THEN /\ e.countdown = published[b][k - 1].countdown - 1
                    /\ e.countdown <= published[b][k - 1].countdown
               ELSE e.countdown = ReloadInterval
            /\ (k < Len(published[b])
                  /\ published[b][k + 1].status \in {"success", "error"}) =>
                  e.countdown = 1
            /\ (k = Len(published[b]) /\ pc[b] = "loop_top"
                  /\ stopInfo[b].phase = "none") =>
                  e.countdown = 1

\* C17 witness: a wait that was not interrupted is on the queue, from the
\* value reload_interval down to 1, followed by the next cycle's outcome.
C17_Witness ==
    \E b \in Bots : \E k \in ProgressEvents(b) :
        /\ k < Len(published[b])
        /\ published[b][k + 1].status \in {"success", "error"}
        /\ published[b][k].countdown = 1
        /\ k - ReloadInterval >= 1
        /\ published[b][k - ReloadInterval].status # "progress"
        /\ \A i \in 1..ReloadInterval :
              /\ published[b][k - ReloadInterval + i].status = "progress"
              /\ published[b][k - ReloadInterval + i].countdown =
                    ReloadInterval - i + 1

\* C18: the statistics read through an event that is on the log are the
\* same after every step as before it: nothing the worker or stop() does
\* later changes an event already published, whatever its kind.
C18_SnapshotsIndependent ==
    [][\A b \in Bots : \A k \in 1..Len(published[b]) :
          EventStats(b, k)' = EventStats(b, k)]_vars

\* C19: every summary the script has read holds a total_checks equal to the
\* sum of the three outcome counters it holds: no cycle is seen counted in
\* total_checks and not yet in the counter of its outcome.
C19_NoTornSummary ==
    \A s \in summary :
        s.successful_logins + s.already_logged_in + s.login_failures =
            s.total_checks

\* What the script of main() holds and writes.
UIState ==
    <<nBots, bot_running, bot_instance, last_status, uiPc, taken, summary>>

\* C20: a step of the script (Start, Stop, draining the queue, reading the
\* summary) leaves the statistics of every bot as they were.
C20_OnlyWorkerWritesStats ==
    [][UIState' # UIState => stats' = stats]_vars

\* The phases in which the while loop of run() is under way.
LoopPhases == {"Checking", "Authenticating", "Waiting", "Backoff"}

\* The info events of b.
InfoEvents(b) ==
    { k \in 1..Len(published[b]) : published[b][k].status = "info" }

\* C21: when stop() was called on a bot whose loop was under way and its
\* worker has returned from run(), the driver is quit, running is False,
\* there is one info event and it is the last event, and current_status is
\* 'Stopped', whatever the order of the statements of stop() and of the
\* worker's exit was.
C21_FinalStateStopped ==
    \A b \in Bots :
        (stopInfo[b].phase \in LoopPhases /\ pc[b] = "done") =>
            /\ driver[b] = "quit"
            /\ quitCalls[b] = 1
            /\ ~running[b]
            /\ Cardinality(InfoEvents(b)) = 1
            /\ published[b][Len(published[b])].status = "info"
            /\ stats[b].current_status = "Stopped"

\* The cycle an event of b was put in: total_checks in its statistics.
CycleOf(b, k) == EventStats(b, k).total_checks

\* C22: along the log of a bot the cycle of the events never decreases;
\* the first event of every cycle is an outcome event (success or error)
\* and the only one of that cycle; every progress event follows an event of
\* its own cycle; and the script has taken from the queue a prefix of the
\* log, its last_status being the last event of that prefix.
C22_CycleOrder ==
    /\ \A b \in Bots : \A k \in 1..Len(published[b]) :
          LET e == published[b][k]
              c == CycleOf(b, k)
          IN  /\ k = 1 => c <= 1
              /\ k > 1 => CycleOf(b, k - 1) <= c
              /\ (k > 1 /\ CycleOf(b, k - 1) < c) =>
                    /\ c = CycleOf(b, k - 1) + 1
                    /\ e.status \in {"success", "error"}
              /\ (k > 1 /\ CycleOf(b, k - 1) = c) =>
                    e.status \in {"progress", "info"}
              /\ e.status = "progress" =>
                    /\ k > 1
                    /\ c >= 1
                    /\ CycleOf(b, k - 1) = c
                    /\ published[b][k - 1].status # "info"
    /\ \A b \in Bots : taken[b] <= Len(published[b])
    /\ last_status # <<>> =>
          /\ last_status[2] = taken[last_status[1]]
          /\ last_status[2] >= 1

\* C22 witness: the outcome of cycle 1, its whole countdown and the outcome
\* of cycle 2 are on the log in that order and the script has taken them.
C22_Witness ==
    \E b \in Bots :
        /\ Len(published[b]) >= ReloadInterval + 2
        /\ taken[b] >= ReloadInterval + 2
        /\ published[b][1].status \in {"success", "error"}
        /\ CycleOf(b, 1) = 1
        /\ \A i \in 2..(ReloadInterval + 1) :
              /\ published[b][i].status = "progress"
              /\ CycleOf(b, i) = 1
        /\ published[b][ReloadInterval + 2].status \in {"success", "error"}
        /\ CycleOf(b, ReloadInterval + 2) = 2

\* The events among the first k of b whose message is in msgs.
Reported(b, k, msgs) ==
    { j \in 1..k : published[b][j].message \in msgs }

\* The counter of the statistics s that records the outcome an event with
\* this message reports.
CounterOf(s, message) ==
    CASE message = "Login successful" -> s.successful_logins
      [] message = "Already logged in" -> s.already_logged_in
      [] OTHER -> s.login_failures

\* C23, state part: in the statistics of every outcome event of a cycle the
\* counter of the reported outcome counts that event too: it equals the
\* number of events reporting that outcome up to and including it.
C23_Inv ==
    \A b \in Bots : \A k \in OutcomeEvents(b) :
        CycleOf(b, k) >= 1 =>
            CounterOf(EventStats(b, k), published[b][k].message) =
                Cardinality(Reported(b, k,
                    IF published[b][k].status = "success"
                    THEN {published[b][k].message}
                    ELSE {"Login failed", "Error in main loop"}))

\* C23, step part: the step that puts an outcome event leaves the
\* statistics as they are and puts them in the event: the counter was
\* incremented by an earlier step.
C23_Step(b) ==
    (/\ Len(published'[b]) > Len(published[b])
     /\ published'[b][Len(published'[b])].status \in {"success", "error"}
     /\ stats[b].total_checks >= 1) =>
        /\ stats'[b] = stats[b]
        /\ published'[b][Len(published'[b])].stats = stats[b]
        /\ published'[b][Len(published'[b])].copied
        /\ CounterOf(stats[b], published'[b][Len(published'[b])].message) >= 1

\* C23, whole: C23_Inv in every state and C23_Step at every step.
C23_CountedBeforePublished ==
    /\ []C23_Inv
    /\ [][\A b \in Bots : C23_Step(b)]_vars

\* C23 witness: a failed login followed by a successful one are on the log,
\* each event with its own outcome counted once.
C23_Witness ==
    \E b \in Bots : \E j, k \in OutcomeEvents(b) :
        /\ j < k
        /\ published[b][j].message = "Login failed"
        /\ EventStats(b, j).login_failures = 1
        /\ EventStats(b, j).successful_logins = 0
        /\ published[b][k].message = "Login successful"
        /\ EventStats(b, k).successful_logins = 1

\* The error events of b put by a cycle of the loop.
CycleErrors(b) ==
    { k \in 1..Len(published[b]) :
        published[b][k].status = "error" /\ CycleOf(b, k) >= 1 }

\* The error events of b put for a failed driver setup.
SetupErrors(b) ==
    { k \in 1..Len(published[b]) :
        published[b][k].status = "error" /\ CycleOf(b, k) = 0 }

\* C24: a worker that returned because the driver setup failed has put one
\* error event, and no other worker has put one for the setup; the error
\* events of the cycles are as many as login_failures, but for the failure
\* counted and about to be reported; no two of them belong to the same
\* cycle; and login_failures never exceeds the number of cycles.
C24_OneEventPerFailure ==
    \A b \in Bots :
        /\ Cardinality(SetupErrors(b)) =
              IF pc[b] = "done" /\ stats[b].start_time = "None" THEN 1 ELSE 0
        /\ stats[b].login_failures =
              Cardinality(CycleErrors(b))
                + (IF pc[b] \in {"put_failed", "put_error"} THEN 1 ELSE 0)
        /\ \A j, k \in CycleErrors(b) : j < k => CycleOf(b, j) < CycleOf(b, k)
        /\ stats[b].login_failures <= stats[b].total_checks

\* C24 witness: a cycle ended by a caught exception and a cycle ended by a
\* failed login are both over, with two failures counted and one error
\* event for each.
C24_Witness ==
    \E b \in Bots :
        /\ pc[b] = "loop_top"
        /\ stats[b].login_failures = 2
        /\ Cardinality(CycleErrors(b)) = 2
        /\ \E j, k \in CycleErrors(b) :
              /\ published[b][j].message = "Error in main loop"
              /\ published[b][k].message = "Login failed"

\* C25: the events waiting on the queue of a bot are never more than
\* RetentionCap, whether or not the script drains it.
C25_ChannelCapped ==
    \A b \in Bots : Len(status_queue(b)) <= RetentionCap

\* The statements of a cycle after login() has returned, up to the put of
\* its outcome.
AfterLogin == {"login_ok", "login_failed", "put_success", "put_failed"}

\* C26, state part: the calls of login() are as many as the events that
\* report a login, but for the one that has returned and is not reported
\* yet; and successful_logins counts the events of successful logins, but
\* for the one counted and not reported yet.
C26_Inv ==
    \A b \in Bots :
        /\ authCalls[b] =
              Cardinality(Reported(b, Len(published[b]),
                                   {"Login successful", "Login failed"}))
                + (IF pc[b] \in AfterLogin THEN 1 ELSE 0)
        /\ stats[b].successful_logins =
              Cardinality(Reported(b, Len(published[b]),
                                   {"Login successful"}))
                + (IF pc[b] = "put_success" THEN 1 ELSE 0)

\* C26, step part: when login() has returned, one of successful_logins (on
\* True) and login_failures (on False) goes up by one and every other
\* counter stays; then one event of the matching kind is put, carrying
\* those statistics, and the countdown starts from its first second.
C26_Step(b) ==
    /\ (pc[b] = "login" /\ pc'[b] # "login") =>
          /\ pc'[b] \in {"login_ok", "login_failed"}
          /\ stats'[b] = stats[b]
          /\ published'[b] = published[b]
    /\ (pc[b] \in {"login_ok", "login_failed"} /\ pc'[b] # pc[b]) =>
          /\ pc'[b] = IF pc[b] = "login_ok" THEN "put_success"
                      ELSE "put_failed"
          /\ stats'[b].successful_logins =
                stats[b].successful_logins
                    + (IF pc[b] = "login_ok" THEN 1 ELSE 0)
          /\ stats'[b].login_failures =
                stats[b].login_failures
                    + (IF pc[b] = "login_failed" THEN 1 ELSE 0)
          /\ stats'[b].already_logged_in = stats[b].already_logged_in
          /\ stats'[b].total_checks = stats[b].total_checks
          /\ published'[b] = published[b]
    /\ (pc[b] \in {"put_success", "put_failed"} /\ pc'[b] # pc[b]) =>
          /\ pc'[b] = "wait_check"
          /\ countdown'[b] = 0
          /\ stats'[b] = stats[b]
          /\ Len(published'[b]) = Len(published[b]) + 1
          /\ published'[b][Len(published'[b])].status =
                IF pc[b] = "put_success" THEN "success" ELSE "error"
          /\ published'[b][Len(published'[b])].message =
                IF pc[b] = "put_success" THEN "Login successful"
                ELSE "Login failed"
          /\ published'[b][Len(published'[b])].stats = stats[b]

\* C26, whole: C26_Inv in every state and C26_Step at every step.
C26_LoginOutcomeFrame ==
    /\ []C26_Inv
    /\ [][\A b \in Bots : C26_Step(b)]_vars

\* C26 witness: two cycles called login(), one returned True and one False;
\* the second outcome is reported and its countdown is about to start.
C26_Witness ==
    \E b \in Bots :
        /\ pc[b] = "wait_check"
        /\ countdown[b] = 0
        /\ authCalls[b] = 2
        /\ stats[b].successful_logins = 1
        /\ stats[b].login_failures = 1
        /\ stats[b].already_logged_in = 0
        /\ published[b][Len(published[b])].message
              \in {"Login successful", "Login failed"}

\* C27, state part: the method under trial is one of the four; a bot not
\* started is at the first; a bot that holds a driver has left the loop
\* over the methods; and a setup that ended with no driver was at the last
\* method.
C27_Inv ==
    \A b \in Bots :
        /\ method[b] \in 1..NumSetupMethods
        /\ pc[b] = "idle" => method[b] = 1 /\ driver[b] = "None"
        /\ driver[b] # "None" => pc[b] \notin {"idle", "setup"}
        /\ (pc[b] \in {"setup_failed", "done"} /\ driver[b] = "None") =>
              method[b] = NumSetupMethods

\* C27, step part: the loop moves to the next method, one at a time, only
\* when the method under trial failed and no driver is held; the method
\* that returns a driver ends the loop and no other is tried after it;
\* the loop ends without a driver only by the failure of the last method.
C27_Step(b) ==
    /\ method'[b] # method[b] =>
          /\ method'[b] = method[b] + 1
          /\ pc[b] = "setup" /\ pc'[b] = "setup"
          /\ driver[b] = "None" /\ driver'[b] = "None"
    /\ (driver[b] = "None" /\ driver'[b] # "None") =>
          /\ driver'[b] = "open"
          /\ pc[b] = "setup" /\ pc'[b] = "anti_detect"
          /\ method'[b] = method[b]
    /\ (pc[b] = "setup" /\ pc'[b] # "setup") =>
          \/ pc'[b] = "anti_detect" /\ driver'[b] = "open"
          \/ /\ pc'[b] = "setup_failed"
             /\ driver'[b] = "None"
             /\ method[b] = NumSetupMethods

\* C27, whole: C27_Inv in every state and C27_Step at every step.
C27_FirstSuccessWins ==
    /\ []C27_Inv
    /\ [][\A b \in Bots : C27_Step(b)]_vars

\* C27 witness: the first two methods failed and the third returned the
\* driver, the fourth not being tried.
C27_Witness ==
    \E b \in Bots :
        /\ pc[b] = "anti_detect"
        /\ method[b] = 3
        /\ driver[b] = "open"

\* C28: whenever a worker has returned from run() and Stop was never
\* clicked on its bot, bot_running is False then or at some later time.
C28_UITracksWorker ==
    \A b \in Bots :
        (pc[b] = "done" /\ stopInfo[b].phase = "none") ~> ~bot_running

====
